---- MODULE Spec2Model ----
(***************************************************************************)
(* Trade confirmation workflow of achat_buy_telegram.py: the pending-order *)
(* map, the buy/sell commands that fill it, the confirm/cancel buttons,    *)
(* and the quantity adjustment of execute_trade, with Python's Decimal     *)
(* arithmetic at the context precision the program sets.                   *)
(***************************************************************************)
EXTENDS Integers, Sequences, FiniteSets, TLC

----------------------------------------------------------------------------
(* Decimal arithmetic.  A Decimal is [c |-> signed coefficient, e |->      *)
(* exponent], value c * 10^e; "1.50" is [c |-> 150, e |-> -2].  Operations *)
(* that can raise return [exc |-> name or "", val |-> Decimal].            *)

\* getcontext().prec = 8
Prec == 8

Dec(c, e) == [c |-> c, e |-> e]

Abs(n) == IF n < 0 THEN -n ELSE n

Sign(n) == IF n < 0 THEN -1 ELSE IF n = 0 THEN 0 ELSE 1

RECURSIVE Pow10(_)
Pow10(k) == IF k <= 0 THEN 1 ELSE 10 * Pow10(k - 1)

\* len(str(n)) for n >= 0
RECURSIVE NumDigits(_)
NumDigits(n) == IF n < 10 THEN 1 ELSE 1 + NumDigits(n \div 10)

\* number of trailing zero digits of n > 0 (0 for n = 0)
RECURSIVE TrailingZeros(_)
TrailingZeros(n) == IF n = 0 \/ n % 10 # 0 THEN 0 ELSE 1 + TrailingZeros(n \div 10)

\* Decimal.adjusted(): the exponent of the most significant digit
Adjusted(d) == NumDigits(Abs(d.c)) + d.e - 1

\* n >= 0 with its last k >= 1 digits rounded off, ROUND_HALF_EVEN (the
\* default rounding of the context); sticky: nonzero digits follow n's last.
RoundHalfEven(n, k, sticky) ==
    IF k > 9 THEN 0
    ELSE LET p    == Pow10(k)
             q    == n \div p
             r    == n % p
             half == p \div 2
         IN  IF r > half \/ (r = half /\ (sticky \/ q % 2 = 1)) THEN q + 1 ELSE q

\* Decimal._fix: sgn * m * 10^(z + e) rounded to Prec significant digits
\* (m >= 0 holds the digits before z further zeros).
DecFix(sgn, m, z, e) ==
    LET nd == NumDigits(m) + z
    IN  IF m = 0 THEN Dec(0, e + z)
        ELSE IF nd <= Prec THEN Dec(sgn * m * Pow10(z), e)
        ELSE LET drop == nd - Prec
             IN  IF drop <= z THEN Dec(sgn * m * Pow10(z - drop), e + drop)
                 ELSE LET r == RoundHalfEven(m, drop - z, FALSE)
                      IN  IF r = Pow10(Prec)
                          THEN Dec(sgn * Pow10(Prec - 1), e + drop + 1)
                          ELSE Dec(sgn * r, e + drop)

\* Decimal.__mul__: exact product, then _fix
DecMul(a, b) ==
    LET za == TrailingZeros(Abs(a.c))
        zb == TrailingZeros(Abs(b.c))
        m  == (Abs(a.c) \div Pow10(za)) * (Abs(b.c) \div Pow10(zb))
    IN  IF a.c = 0 \/ b.c = 0 THEN Dec(0, a.e + b.e)
        ELSE DecFix(Sign(a.c) * Sign(b.c), m, za + zb, a.e + b.e)

\* floor(n * 10^k / d) by long division, stopped once it has more than Prec digits
RECURSIVE LongDiv(_, _, _, _)
LongDiv(q, r, k, d) ==
    IF k <= 0 \/ q >= Pow10(Prec) THEN q
    ELSE LongDiv(q * 10 + (r * 10) \div d, (r * 10) % d, k - 1, d)

\* Decimal.__floordiv__ (Decimal._divide): the integer part of a / b,
\* truncated towards zero, exponent 0; raises when it has more than Prec digits.
DecFloorDiv(a, b) ==
    LET n       == Abs(a.c)
        d       == Abs(b.c)
        expdiff == Adjusted(a) - Adjusted(b)
        q       == IF a.e >= b.e
                   THEN LongDiv(n \div d, n % d, a.e - b.e, d)
                   ELSE IF b.e - a.e > 9 THEN 0
                   ELSE (n \div Pow10(b.e - a.e)) \div d
    IN  IF b.c = 0
        THEN [exc |-> IF a.c = 0 THEN "DivisionUndefined" ELSE "DivisionByZero",
              val |-> Dec(0, 0)]
        ELSE IF a.c = 0 \/ expdiff <= -2 THEN [exc |-> "", val |-> Dec(0, 0)]
        ELSE IF expdiff <= Prec /\ q < Pow10(Prec)
        THEN [exc |-> "", val |-> Dec(Sign(a.c) * Sign(b.c) * q, 0)]
        ELSE [exc |-> "DivisionImpossible", val |-> Dec(0, 0)]

\* the digits of n / d, extended until exact or Prec + 1 digits long:
\* <<quotient, remainder, exponent>>
RECURSIVE DivLoop(_, _, _, _)
DivLoop(q, r, x, d) ==
    IF r = 0 \/ NumDigits(q) >= Prec + 1 THEN <<q, r, x>>
    ELSE DivLoop(q * 10 + (r * 10) \div d, (r * 10) % d, x - 1, d)

\* mutant of DecDiv: the operands multiplied
DecDivAsProduct(a, b) == [exc |-> "", val |-> DecMul(a, b)]

\* Decimal.__truediv__: a / b correctly rounded to Prec digits
DecDiv(a, b) ==
    LET n   == Abs(a.c)
        d   == Abs(b.c)
        sgn == Sign(a.c) * Sign(b.c)
        t   == DivLoop(n \div d, n % d, a.e - b.e, d)
        nd  == NumDigits(t[1])
        r   == RoundHalfEven(t[1], nd - Prec, TRUE)
    IN  IF b.c = 0
        THEN [exc |-> IF a.c = 0 THEN "DivisionUndefined" ELSE "DivisionByZero",
              val |-> Dec(0, 0)]
        ELSE IF a.c = 0 THEN [exc |-> "", val |-> Dec(0, a.e - b.e)]
        ELSE IF t[2] = 0 THEN [exc |-> "", val |-> DecFix(sgn, t[1], 0, t[3])]
        ELSE IF nd <= Prec THEN [exc |-> "", val |-> Dec(sgn * t[1], t[3])]
        ELSE IF r = Pow10(Prec)
        THEN [exc |-> "", val |-> Dec(sgn * Pow10(Prec - 1), t[3] + nd - Prec + 1)]
        ELSE [exc |-> "", val |-> Dec(sgn * r, t[3] + nd - Prec)]

\* Decimal.quantize(Decimal(10) ** x): a re-expressed at exponent x; raises
\* InvalidOperation when that takes more than Prec digits.
DecQuantize(a, x) ==
    LET n == Abs(a.c)
        r == IF a.e >= x THEN n * Pow10(a.e - x)
             ELSE RoundHalfEven(n, x - a.e, FALSE)
    IN  IF a.c = 0 THEN [exc |-> "", val |-> Dec(0, x)]
        ELSE IF Adjusted(a) - x + 1 > Prec
        THEN [exc |-> "InvalidOperation", val |-> Dec(0, 0)]
        ELSE IF NumDigits(r) > Prec
        THEN [exc |-> "InvalidOperation", val |-> Dec(0, 0)]
        ELSE [exc |-> "", val |-> Dec(Sign(a.c) * r, x)]

\* a Decimal with the trailing zeros of its coefficient moved to the exponent
Normalize(a) ==
    LET z == TrailingZeros(Abs(a.c))
    IN  IF a.c = 0 THEN Dec(0, 0) ELSE Dec(a.c \div Pow10(z), a.e + z)

\* comparison of magnitudes of nonzero a, b: -1, 0 or 1
CmpMag(a, b) ==
    LET x  == Normalize(a)
        y  == Normalize(b)
        m  == IF x.e < y.e THEN x.e ELSE y.e
        xs == Abs(x.c) * Pow10(x.e - m)
        ys == Abs(y.c) * Pow10(y.e - m)
    IN  IF Adjusted(x) # Adjusted(y)
        THEN (IF Adjusted(x) < Adjusted(y) THEN -1 ELSE 1)
        ELSE Sign(xs - ys)

\* Decimal comparison by value: -1, 0 or 1
DecCmp(a, b) ==
    IF Sign(a.c) # Sign(b.c) THEN Sign(Sign(a.c) - Sign(b.c))
    ELSE IF a.c = 0 THEN 0
    ELSE Sign(a.c) * CmpMag(a, b)

DecLt(a, b) == DecCmp(a, b) < 0

DecEq(a, b) == DecCmp(a, b) = 0

----------------------------------------------------------------------------
(* Strings.  A pair such as "BTCUSDT" is a sequence of "_"-separated       *)
(* segments, each a sequence of asset codes: <<<<"BTC", "USDT">>>>;        *)
(* "BTC_USDT" is <<<<"BTC">>, <<"USDT">>>>.                                *)

\* ['USDT', 'USDC']
Stablecoins == {"USDT", "USDC"}

\* str.upper() on an asset code
Upper(tok) ==
    CASE tok = "btc"  -> "BTC"
      [] tok = "eth"  -> "ETH"
      [] tok = "usdt" -> "USDT"
      [] tok = "usdc" -> "USDC"
      [] OTHER        -> tok

\* context.args[1].upper()
UpperPair(p) == [i \in DOMAIN p |-> [j \in DOMAIN p[i] |-> Upper(p[i][j])]]

\* mutant of SupportedPair: the pair is not validated
SupportedPairAny(pair) == TRUE

\* any(pair.endswith(coin) for coin in ['USDT', 'USDC'])
SupportedPair(pair) ==
    /\ Len(pair) > 0
    /\ LET seg == pair[Len(pair)]
       IN  Len(seg) > 0 /\ seg[Len(seg)] \in Stablecoins

\* f"confirm_{pair}", as data.split("_") sees it
ConfirmData(pair) == <<<<"confirm">>>> \o pair

\* callback_data="cancel"
CancelData == <<<<"cancel">>>>

\* Decimal(context.args[0]): the amounts users type
ParseDecimal(s) ==
    CASE s = "100" -> [exc |-> "", val |-> Dec(100, 0)]
      [] s = "1.5" -> [exc |-> "", val |-> Dec(15, -1)]
      [] s = "0"   -> [exc |-> "", val |-> Dec(0, 0)]
      [] s = "-1"  -> [exc |-> "", val |-> Dec(-1, 0)]
      [] OTHER     -> [exc |-> "ConversionSyntax", val |-> Dec(0, 0)]

----------------------------------------------------------------------------
(* Inputs: what users send and what the exchange answers.                  *)

Users == {"u1", "u2"}

\* context.args of the /buy and /sell commands users send: n arguments,
\* the amount, the pair
Commands ==
    {[n |-> 2, amount |-> "100", pair |-> <<<<"btc", "usdt">>>>],
     [n |-> 2, amount |-> "1.5", pair |-> <<<<"ETH", "USDC">>>>],
     [n |-> 2, amount |-> "0",   pair |-> <<<<"btc", "usdt">>>>],
     [n |-> 2, amount |-> "-1",  pair |-> <<<<"ETH", "USDC">>>>],
     [n |-> 2, amount |-> "1.5", pair |-> <<<<"BTC">>, <<"USDT">>>>],
     [n |-> 2, amount |-> "abc", pair |-> <<<<"btc", "usdt">>>>],
     [n |-> 2, amount |-> "100", pair |-> <<<<"BTC", "ETH">>>>],
     [n |-> 1, amount |-> "100", pair |-> <<>>]}

\* the buttons a chat can hold: those of the prompts of this run or of an
\* earlier run of the process
ButtonData ==
    {ConfirmData(UpperPair(c.pair)) :
        c \in {k \in Commands : k.n = 2 /\ SupportedPair(UpperPair(k.pair))}}
    \cup {CancelData}

\* the answer to a lookup that is not made
NoAnswer == [ok |-> FALSE, what |-> "none", price |-> Dec(0, 0), free |-> Dec(0, 0)]

\* binance_client.get_symbol_ticker: ticker['price'], or BinanceAPIException
TickerResponses ==
    {[ok |-> TRUE, what |-> "ticker", price |-> Dec(50000, 0), free |-> Dec(0, 0)],
     [ok |-> TRUE, what |-> "ticker", price |-> Dec(3, 0), free |-> Dec(0, 0)],
     [ok |-> FALSE, what |-> "ticker", price |-> Dec(0, 0), free |-> Dec(0, 0)]}

\* binance_client.get_asset_balance: balance['free'], or an exception
BalanceResponses ==
    {[ok |-> TRUE, what |-> "balance", price |-> Dec(0, 0), free |-> Dec(2, 0)],
     [ok |-> FALSE, what |-> "balance", price |-> Dec(0, 0), free |-> Dec(0, 0)]}

\* binance_client.get_symbol_info: the LOT_SIZE filter, or None / an exception
RuleResponses ==
    {[ok |-> TRUE, min_qty |-> Dec(1, -4), step_size |-> Dec(1, -4)],
     [ok |-> TRUE, min_qty |-> Dec(10000, -8), step_size |-> Dec(10000, -8)],
     [ok |-> TRUE, min_qty |-> Dec(1, 0), step_size |-> Dec(4, -1)],
     [ok |-> FALSE, min_qty |-> Dec(0, 0), step_size |-> Dec(0, 0)]}

\* binance_client.order_market_buy / order_market_sell: an order with its
\* fills (or without a 'fills' key), an order whose 'fills' list is empty (a
\* market order that expired without a match), or a raise
OrderResponses == {"order", "order_no_fills", "BinanceAPIException", "Exception"}

\* context.args of the /info commands users send
InfoArgs == {<<>>, <<<<<<"btc", "usdt">>>>>>, <<<<<<"BTC", "ETH">>>>>>}

\* get_all_balances as show_balance sees it: a list of balances, None or an
\* empty list, or a list whose formatting raises
AccountResponses == {"balances", "none", "raises"}

\* submissions counted per stored pending order before confirms are cut off
MaxSubmit == 2

----------------------------------------------------------------------------
(* State.                                                                  *)

VARIABLES
    pending_orders,  \* the dict pending_orders: user id -> {pair, quantity, is_buy}
    task,            \* <<>>, or <<the handle_button call suspended at its first edit>>
    last,            \* the update being handled: its input, the exchange's answers and
                     \* the reply; NoUpdate while the dispatcher waits for the next one
    submissions,     \* per user: market orders submitted since the pending order was stored
    cancelled,       \* per user: a cancel was handled and no order has been stored since
    prompts          \* per user, the confirm buttons on screen for the pair of the
                     \* pending order: shown, the prompt of that order is on screen;
                     \* older, a prompt sent before that order was stored is.  A
                     \* button for another pair is answered the same whichever
                     \* prompt it is on, and is not tracked.

vars == <<pending_orders, task, last, submissions, cancelled, prompts>>

DecZero == Dec(0, 0)

NoRaise == [exc |-> "", val |-> DecZero]

NoRules == [ok |-> FALSE, min_qty |-> DecZero, step_size |-> DecZero]

NoCommand == [n |-> 0, amount |-> "", pair |-> <<>>]

NoPrompts == [shown |-> FALSE, older |-> FALSE]

NoUpdate ==
    [kind |-> "none", user |-> "", is_buy |-> FALSE, cmd |-> NoCommand, data |-> <<>>,
     stale |-> FALSE, matched |-> FALSE, price |-> DecZero, free |-> DecZero, stored |-> FALSE,
     replaced |-> FALSE,
     quantity |-> DecZero, rules |-> NoRules, adjusted |-> NoRaise,
     error |-> "", calls |-> <<>>, submitted |-> <<>>, answer |-> "",
     raised |-> "", reply |-> ""]

\* mutant of StoreOrder: pending_orders.setdefault(user_id, order)
StoreOrderIfAbsent(po, u, order) ==
    [k \in DOMAIN po \cup {u} |-> IF k \in DOMAIN po THEN po[k] ELSE order]

\* pending_orders[user_id] = order
StoreOrder(po, u, order) ==
    [k \in DOMAIN po \cup {u} |-> IF k = u THEN order ELSE po[k]]

\* mutant of PopOrder: the cancel clears the whole dict
PopOrderAll(po, u) == <<>>

\* mutant of PopOrder: the cancel forgets to remove the entry
PopOrderKeeps(po, u) == po

\* pending_orders.pop(user_id, None)
PopOrder(po, u) == [k \in DOMAIN po \ {u} |-> po[k]]

\* mutant of ExceedsBalance: the comparison reversed
ExceedsBalanceReversed(amount, balance) == DecLt(amount, balance)

\* amount > balance
ExceedsBalance(amount, balance) == DecLt(balance, amount)

\* float(adjusted_qty): the double nearest to a Decimal of at most Prec digits
\* prints back as the same number, without its trailing zeros
ToFloat(d) == Normalize(d)

----------------------------------------------------------------------------
(* execute_trade and its helpers.                                          *)

\* check_symbol_rules: None when the symbol info is missing or the lookup raises
check_symbol_rules(resp) == IF resp.ok THEN resp ELSE NoRules

\* mutant of AdjustQuantity: the quantity rounded to the step's digits, not floored
AdjustQuantityNoFloor(quantity, step_size) ==
    DecQuantize(quantity, -Abs(step_size.e))

\* precision = abs(step_size exponent);
\* (quantity // step_size) * step_size, quantized to 10 ** -precision
AdjustQuantity(quantity, step_size) ==
    LET fd == DecFloorDiv(quantity, step_size)
    IN  IF fd.exc # "" THEN fd
        ELSE DecQuantize(DecMul(fd.val, step_size), -Abs(step_size.e))

\* mutant of BelowMinimum: the minimum is not enforced
BelowMinimumNever(adjusted_qty, min_qty) == FALSE

\* adjusted_qty < rules['min_qty']
BelowMinimum(adjusted_qty, min_qty) == DecLt(adjusted_qty, min_qty)

\* the order_market_buy / order_market_sell call
MarketOrder(pair, adjusted_qty, is_buy) ==
    [symbol |-> pair, side |-> IF is_buy THEN "BUY" ELSE "SELL",
     quantity |-> ToFloat(adjusted_qty)]

\* execute_trade(pair, quantity, is_buy) under the exchange's answers:
\* order is whether an order came back, error the kind of the error string,
\* answer what the exchange did with the order call when one was made
execute_trade(pair, quantity, is_buy, rulesResp, orderResp) ==
    LET rules == check_symbol_rules(rulesResp)
        adj   == AdjustQuantity(quantity, rules.step_size)
        base  == [order |-> FALSE, error |-> "", rules |-> rules, adjusted |-> NoRaise,
                  calls |-> <<"get_symbol_info">>, submitted |-> <<>>,
                  answer |-> ""]
    IN  IF ~rules.ok THEN [base EXCEPT !.error = "rules_unavailable"]
        ELSE IF adj.exc # "" THEN [base EXCEPT !.error = "exception", !.adjusted = adj]
        ELSE IF BelowMinimum(adj.val, rules.min_qty)
        THEN [base EXCEPT !.error = "quantity_too_small", !.adjusted = adj]
        ELSE LET sent == [base EXCEPT
                            !.adjusted = adj,
                            !.calls = <<"get_symbol_info",
                                        IF is_buy THEN "order_market_buy"
                                                  ELSE "order_market_sell">>,
                            !.submitted = <<MarketOrder(pair, adj.val, is_buy)>>,
                            !.answer = orderResp]
             IN  CASE orderResp \in {"order", "order_no_fills"}
                            -> [sent EXCEPT !.order = TRUE]
                   [] orderResp = "BinanceAPIException" -> [sent EXCEPT !.error = "binance"]
                   [] OTHER -> [sent EXCEPT !.error = "exception"]

----------------------------------------------------------------------------
(* The handlers.  The Application is built without concurrent_updates, so  *)
(* updates are handled one after the other: a handler starts only when the *)
(* handling of the update before it is over.                               *)

\* confirm_trade(update, context, is_buy) for user u with context.args cmd;
\* first: the exchange's answer to the first lookup (the price for a buy, the
\* balance for a sell), t2: its answer to the second price lookup.
confirm_trade(u, is_buy, cmd, first, t2) ==
    LET amount == ParseDecimal(cmd.amount)
        pair   == UpperPair(cmd.pair)
        div    == DecDiv(amount.val, first.price)
        free   == IF first.ok THEN first.free ELSE DecZero
        qty    == IF is_buy THEN div.val ELSE amount.val
        order  == [pair |-> pair, quantity |-> qty, is_buy |-> is_buy]
        total  == DecQuantize(DecMul(qty, t2.price), -2)
        upd    == [NoUpdate EXCEPT !.kind = "command", !.user = u,
                                   !.is_buy = is_buy, !.cmd = cmd]
        out    ==
            IF cmd.n # 2 THEN [upd EXCEPT !.reply = "usage"]
            ELSE IF amount.exc # "" THEN [upd EXCEPT !.reply = "error"]
            ELSE IF ~SupportedPair(pair) THEN [upd EXCEPT !.reply = "unsupported_pair"]
            ELSE IF is_buy /\ ~first.ok
            THEN [upd EXCEPT !.reply = "error", !.calls = <<"get_symbol_ticker">>]
            ELSE IF is_buy /\ div.exc # ""
            THEN [upd EXCEPT !.reply = "error", !.calls = <<"get_symbol_ticker">>,
                             !.price = first.price]
            ELSE IF ~is_buy /\ ExceedsBalance(amount.val, free)
            THEN [upd EXCEPT !.reply = "insufficient_balance", !.free = free,
                             !.calls = <<"get_asset_balance">>]
            ELSE LET st == [upd EXCEPT !.stored = TRUE, !.quantity = qty,
                                       !.replaced = u \in DOMAIN pending_orders,
                                       !.price = IF is_buy THEN first.price ELSE DecZero,
                                       !.free = free,
                                       !.calls = <<IF is_buy THEN "get_symbol_ticker"
                                                             ELSE "get_asset_balance",
                                                   "get_symbol_ticker">>]
                 IN  IF ~t2.ok \/ total.exc # "" THEN [st EXCEPT !.reply = "error"]
                     ELSE [st EXCEPT !.reply = "prompt"]
    IN  /\ last = NoUpdate
        /\ last' = out
        \* a lookup that is not made has no answer to choose
        /\ (Len(last'.calls) < 1) = (first = NoAnswer)
        /\ (Len(last'.calls) < 2) = (t2 = NoAnswer)
        /\ pending_orders' = IF last'.stored THEN StoreOrder(pending_orders, u, order)
                             ELSE pending_orders
        /\ submissions' = IF last'.stored THEN [submissions EXCEPT ![u] = 0]
                          ELSE submissions
        /\ cancelled' = IF last'.stored THEN [cancelled EXCEPT ![u] = FALSE]
                        ELSE cancelled
        \* the prompts sent so far are now older than the stored order
        /\ prompts' = IF last'.stored
                      THEN [prompts EXCEPT ![u] =
                              [shown |-> last'.reply = "prompt",
                               older |-> /\ u \in DOMAIN pending_orders
                                         /\ pending_orders[u].pair = pair
                                         /\ (@.older \/ @.shown)]]
                      ELSE prompts
        /\ UNCHANGED task

\* data.startswith("confirm_")
IsConfirm(data) == Len(data) >= 2 /\ data[1] = <<"confirm">>

\* mutant of Matches: the pair of the button is not compared
MatchesAnyPair(po, u, data) == u \in DOMAIN po

\* order_data and order_data['pair'] == pair, with pair = data.split("_")[1]
Matches(po, u, data) == u \in DOMAIN po /\ po[u].pair = <<data[2]>>

\* handle_button for a confirm button, up to its edit_message_text("processing")
\* or to the end when nothing matches; stale: the button is on a prompt sent
\* before the user's newest order was stored.  Either edit_message_text
\* removes the keyboard of the pressed prompt.
handle_button_confirm(u, data, stale) ==
    LET upd == [NoUpdate EXCEPT !.kind = "confirm", !.user = u, !.data = data,
                                !.stale = stale]
    IN  /\ last = NoUpdate
        /\ IsConfirm(data)
        /\ stale => /\ u \in DOMAIN pending_orders
                    /\ pending_orders[u].pair = Tail(data)
                    /\ prompts[u].older
        /\ prompts' = IF u \in DOMAIN pending_orders /\ pending_orders[u].pair = Tail(data)
                      THEN [prompts EXCEPT ![u] =
                              IF stale THEN [@ EXCEPT !.older = FALSE]
                                       ELSE [@ EXCEPT !.shown = FALSE]]
                      ELSE prompts
        /\ IF Matches(pending_orders, u, data)
           THEN /\ submissions[u] < MaxSubmit
                /\ task' = <<[user |-> u, order_data |-> pending_orders[u]]>>
                /\ last' = [upd EXCEPT !.matched = TRUE, !.reply = "processing",
                                       !.quantity = pending_orders[u].quantity]
           ELSE /\ task' = task
                /\ last' = [upd EXCEPT !.reply = "expired"]
        /\ UNCHANGED <<pending_orders, submissions, cancelled>>

\* the update record once execute_trade has returned r: the report is sent,
\* unless the success message cannot be built (fills[0] of an empty list
\* raises IndexError, which handle_button does not catch) and the message
\* stays as it was
Reported(upd, r) ==
    [upd EXCEPT !.rules = r.rules, !.adjusted = r.adjusted, !.error = r.error,
                !.calls = r.calls, !.submitted = r.submitted, !.answer = r.answer,
                !.raised = IF r.order /\ r.answer = "order_no_fills"
                           THEN "IndexError" ELSE "",
                !.reply = IF ~r.order THEN "error"
                          ELSE IF r.answer = "order_no_fills" THEN @
                          ELSE "success"]

\* handle_button from the await of execute_trade to its last edit_message_text
\* or to the raise that ends it
handle_button_resume(rulesResp, orderResp) ==
    /\ task # <<>>
    /\ last' = Reported(last, execute_trade(task[1].order_data.pair,
                                            task[1].order_data.quantity,
                                            task[1].order_data.is_buy,
                                            rulesResp, orderResp))
    \* an order call that is not made has no answer to choose
    /\ (last'.submitted = <<>>) => orderResp = "order"
    /\ submissions' = [submissions EXCEPT ![task[1].user] = @ + Len(last'.submitted)]
    /\ task' = <<>>
    /\ UNCHANGED <<pending_orders, cancelled, prompts>>

\* handle_button for the cancel button: no order is pending afterwards
handle_button_cancel(u) ==
    /\ last = NoUpdate
    /\ pending_orders' = PopOrder(pending_orders, u)
    /\ cancelled' = [cancelled EXCEPT ![u] = TRUE]
    /\ last' = [NoUpdate EXCEPT !.kind = "cancel", !.user = u, !.data = CancelData,
                                !.reply = "cancelled"]
    /\ prompts' = [prompts EXCEPT ![u] = NoPrompts]
    /\ UNCHANGED <<task, submissions>>

\* show_balance: the portfolio, or why it cannot be shown
show_balance(u, resp) ==
    /\ last = NoUpdate
    /\ last' = [NoUpdate EXCEPT !.kind = "balance", !.user = u,
                                !.calls = <<"get_account">>,
                                !.reply = CASE resp = "balances" -> "balances"
                                            [] resp = "none" -> "no_balances"
                                            [] OTHER -> "error"]
    /\ UNCHANGED <<pending_orders, task, submissions, cancelled, prompts>>

\* the price of /info as it is printed: 2, 4 or 6 decimals by its size
FormatPrice(price) ==
    IF DecLt(Dec(100, 0), price) THEN DecQuantize(price, -2)
    ELSE IF DecLt(Dec(1, 0), price) THEN DecQuantize(price, -4)
    ELSE DecQuantize(price, -6)

\* crypto_info with context.args args under the exchange's answer t
crypto_info(u, args, t) ==
    LET pair == IF args = <<>> THEN <<>> ELSE UpperPair(args[1])
        upd  == [NoUpdate EXCEPT !.kind = "info", !.user = u,
                                 !.cmd = [n |-> Len(args), amount |-> "", pair |-> pair]]
        out  == IF args = <<>> THEN [upd EXCEPT !.reply = "usage"]
                ELSE IF ~SupportedPair(pair) THEN [upd EXCEPT !.reply = "unsupported_pair"]
                ELSE IF ~t.ok
                THEN [upd EXCEPT !.reply = "not_found", !.calls = <<"get_symbol_ticker">>]
                ELSE [upd EXCEPT !.calls = <<"get_symbol_ticker">>, !.price = t.price,
                                 !.reply = IF FormatPrice(t.price).exc = ""
                                           THEN "price" ELSE "error"]
    IN  /\ last = NoUpdate
        /\ last' = out
        /\ (last'.calls = <<>>) = (t = NoAnswer)
        /\ UNCHANGED <<pending_orders, task, submissions, cancelled, prompts>>

\* help_command, for /start and /help
help_command(u) ==
    /\ last = NoUpdate
    /\ last' = [NoUpdate EXCEPT !.kind = "help", !.user = u, !.reply = "help"]
    /\ UNCHANGED <<pending_orders, task, submissions, cancelled, prompts>>

\* reset_conversation: the chat's messages are deleted and the help text is
\* sent, or the deletion raises and the manual instructions are sent
reset_conversation(u, erased) ==
    /\ last = NoUpdate
    /\ last' = [NoUpdate EXCEPT !.kind = "reset", !.user = u,
                                !.reply = IF erased THEN "help" ELSE "cannot_erase"]
    /\ prompts' = IF erased THEN [prompts EXCEPT ![u] = NoPrompts] ELSE prompts
    /\ UNCHANGED <<pending_orders, task, submissions, cancelled>>

\* the handler has returned: the dispatcher takes the next update
update_done ==
    /\ last # NoUpdate
    /\ task = <<>>
    /\ last' = NoUpdate
    /\ UNCHANGED <<pending_orders, task, submissions, cancelled, prompts>>

Init ==
    /\ pending_orders = <<>>
    /\ task = <<>>
    /\ last = NoUpdate
    /\ submissions = [u \in Users |-> 0]
    /\ cancelled = [u \in Users |-> FALSE]
    /\ prompts = [u \in Users |-> NoPrompts]

Next ==
    \/ \E u \in Users, is_buy \in BOOLEAN, cmd \in Commands :
          \E first \in (IF is_buy THEN TickerResponses ELSE BalanceResponses)
                          \cup {NoAnswer},
             t2 \in TickerResponses \cup {NoAnswer} :
             confirm_trade(u, is_buy, cmd, first, t2)
    \/ \E u \in Users, data \in ButtonData, stale \in BOOLEAN :
          handle_button_confirm(u, data, stale)
    \/ \E rulesResp \in RuleResponses, orderResp \in OrderResponses :
          handle_button_resume(rulesResp, orderResp)
    \/ \E u \in Users : handle_button_cancel(u)
    \/ \E u \in Users, resp \in AccountResponses : show_balance(u, resp)
    \/ \E u \in Users, args \in InfoArgs, t \in TickerResponses \cup {NoAnswer} :
          crypto_info(u, args, t)
    \/ \E u \in Users : help_command(u)
    \/ \E u \in Users, erased \in BOOLEAN : reset_conversation(u, erased)
    \/ update_done

Spec == Init /\ [][Next]_vars

\* a handler that awaits execute_trade is resumed: the exchange's calls return
\* or raise
LiveSpec ==
    Spec /\ WF_vars(\E rulesResp \in RuleResponses, orderResp \in OrderResponses :
                       handle_button_resume(rulesResp, orderResp))

----------------------------------------------------------------------------
(* Properties.                                                             *)

\* floor(q / S) * S in exact arithmetic, for q >= 0 and S > 0
ExactFloorMultiple(q, S) ==
    LET a  == Normalize(q)
        b  == Normalize(S)
        m  == IF a.e < b.e THEN a.e ELSE b.e
        qq == a.c * Pow10(a.e - m)
        ss == b.c * Pow10(b.e - m)
    IN  Dec((qq \div ss) * ss, m)

\* the pair a confirm button was made for: f"confirm_{pair}" without its prefix
ButtonPair(data) == Tail(data)

\* the step starts the handling of an update, described by last'
Handles(kind) == last = NoUpdate /\ last'.kind = kind

\* C1: once handle_button has handled a confirm whose pair matches the user's
\* pending order, whatever execute_trade returned, the user has no entry in
\* pending_orders.
C1_ConfirmRemovesPending ==
    (last.kind = "confirm" /\ last.matched /\ task = <<>>)
        => last.user \notin DOMAIN pending_orders

\* C2: for each stored pending order at most one market order is ever
\* submitted to the exchange.
C2_AtMostOneSubmission == \A u \in Users : submissions[u] <= 1

\* C3: once a cancel of user u has been handled, and until u stores a new
\* order, no market order is submitted for u: a further cancel leaves the map
\* unchanged, a confirm is answered "expired" with no exchange call.
C3_NoTradeAfterCancel ==
    [][\A u \in Users : cancelled[u] =>
          /\ u \notin DOMAIN pending_orders
          /\ (task # <<>> /\ task[1].user = u) => last'.submitted = <<>>
          /\ (Handles("cancel") /\ last'.user = u) => pending_orders' = pending_orders
          /\ (Handles("confirm") /\ last'.user = u) =>
                /\ last'.reply = "expired"
                /\ last'.calls = <<>>
                /\ task' = <<>>
                /\ submissions' = submissions]_vars

\* C3's case: a confirm of a user handled after that user's cancel
C3_Witness ==
    \E u \in Users :
        /\ cancelled[u]
        /\ last.kind = "confirm" /\ last.user = u /\ last.reply = "expired"
        /\ \E v \in Users \ {u} : v \in DOMAIN pending_orders

\* C4: a confirm whose pair differs from the pair of the user's pending order,
\* or that finds no pending order, is answered "expired", makes no exchange
\* call and leaves pending_orders unchanged.
C4_MismatchExpires ==
    [][(/\ Handles("confirm")
        /\ \/ last'.user \notin DOMAIN pending_orders
           \/ pending_orders[last'.user].pair # ButtonPair(last'.data))
       => /\ last'.reply = "expired"
          /\ last'.calls = <<>>
          /\ last'.submitted = <<>>
          /\ task' = <<>>
          /\ submissions' = submissions
          /\ pending_orders' = pending_orders]_vars

\* C4's case: a confirm for another pair than the stored order's was answered
C4_Witness ==
    /\ last.kind = "confirm" /\ last.reply = "expired"
    /\ last.user \in DOMAIN pending_orders
    /\ pending_orders[last.user].pair # ButtonPair(last.data)
    /\ SupportedPair(ButtonPair(last.data))

\* C5: a validated command leaves exactly its own order as the user's entry
\* (pair, quantity, direction), replacing any earlier one, and the order a
\* confirm executes is the entry then stored, so nothing of a replaced
\* command is executed.
C5_LastRequestWins ==
    [][/\ (Handles("command") /\ last'.stored) =>
            /\ last'.user \in DOMAIN pending_orders'
            /\ pending_orders'[last'.user] =
                  [pair     |-> UpperPair(last'.cmd.pair),
                   quantity |-> IF last'.is_buy
                                THEN DecDiv(ParseDecimal(last'.cmd.amount).val,
                                            last'.price).val
                                ELSE ParseDecimal(last'.cmd.amount).val,
                   is_buy   |-> last'.is_buy]
       /\ task # <<>> =>
            /\ task[1].user \in DOMAIN pending_orders
            /\ task[1].order_data = pending_orders[task[1].user]]_vars

\* C5's case: a command stored an order over the user's earlier, different one
C5_Witness ==
    /\ last.kind = "command" /\ last.stored /\ last.replaced
    /\ last.cmd.amount = "1.5" /\ ~last.is_buy
    /\ pending_orders[last.user].quantity = Dec(15, -1)

\* C6: every market order submitted is for the pair and the direction of the
\* pending order of the confirming user, its quantity is floor(q / S) * S of
\* the stored quantity q, and the confirm matched that order.
C6_OrderIsThePendingOrder ==
    last.submitted # <<>> =>
        /\ last.kind = "confirm" /\ last.matched
        /\ last.user \in DOMAIN pending_orders
        /\ LET o == pending_orders[last.user]
               s == last.submitted[1]
           IN  /\ o.pair = ButtonPair(last.data)
               /\ s.symbol = o.pair
               /\ s.side = (IF o.is_buy THEN "BUY" ELSE "SELL")
               /\ o.quantity.c > 0
               /\ DecEq(s.quantity, ExactFloorMultiple(o.quantity, last.rules.step_size))

\* C6's case: an order was submitted with a quantity below the stored one
C6_Witness ==
    /\ last.submitted # <<>>
    /\ DecLt(last.submitted[1].quantity, pending_orders[last.user].quantity)

\* C7: every order in pending_orders has a quantity > 0.
C7_PendingQuantityPositive ==
    \A u \in DOMAIN pending_orders : pending_orders[u].quantity.c > 0

\* C8: a sell whose amount exceeds the free balance fetched for it is answered
\* "insufficient balance" and leaves pending_orders unchanged; a stored sell
\* order has a quantity <= the free balance fetched when it was stored.
C8_SellWithinBalance ==
    [][(Handles("command") /\ ~last'.is_buy) =>
          /\ (/\ Len(last'.calls) >= 1
              /\ DecCmp(ParseDecimal(last'.cmd.amount).val, last'.free) > 0)
             => /\ last'.reply = "insufficient_balance"
                /\ ~last'.stored
                /\ pending_orders' = pending_orders
          /\ last'.stored =>
                DecCmp(pending_orders'[last'.user].quantity, last'.free) <= 0]_vars

\* C8's case: a sell above the balance was refused while an order was pending
C8_Witness ==
    /\ last.kind = "command" /\ ~last.is_buy
    /\ last.reply = "insufficient_balance"
    /\ DecLt(Dec(0, 0), last.free)
    /\ last.user \in DOMAIN pending_orders

\* C9: a command whose pair does not end in USDT or USDC makes no exchange
\* call, stores nothing and gets no prompt.
C9_UnsupportedPairRejected ==
    [][(/\ Handles("command") /\ last'.cmd.n = 2
        /\ LET seg == last'.cmd.pair[Len(last'.cmd.pair)]
           IN  seg[Len(seg)] \notin {"USDT", "USDC", "usdt", "usdc"})
       => /\ last'.calls = <<>>
          /\ ~last'.stored
          /\ last'.reply \in {"unsupported_pair", "error"}
          /\ pending_orders' = pending_orders]_vars

\* C9's case: a command with an unsupported pair was refused
C9_Witness ==
    /\ last.kind = "command" /\ last.reply = "unsupported_pair"
    /\ last.user \in DOMAIN pending_orders

\* C10: for q > 0, S > 0, M > 0 the adjustment yields floor(q / S) * S; an
\* order is submitted only with that value and only when it is >= M, and
\* when it is below M the error is "quantity too small".
C10_AdjustIsFloorMultiple ==
    (/\ last.kind = "confirm" /\ last.matched /\ task = <<>>
     /\ last.rules.ok /\ last.quantity.c > 0
     /\ last.rules.step_size.c > 0 /\ last.rules.min_qty.c > 0)
    => LET f == ExactFloorMultiple(last.quantity, last.rules.step_size)
       IN  /\ last.adjusted.exc = ""
           /\ DecEq(last.adjusted.val, f)
           /\ last.submitted # <<>> =>
                 /\ ~DecLt(f, last.rules.min_qty)
                 /\ DecEq(last.submitted[1].quantity, f)
           /\ DecLt(f, last.rules.min_qty) =>
                 /\ last.error = "quantity_too_small"
                 /\ last.submitted = <<>>

\* C11: when a matching confirm has been handled: if the trading rules could
\* not be fetched, or the adjusted quantity is below the minimum quantity, no
\* market order was submitted and the reply is the error naming that reason;
\* if the exchange rejected the submitted order the reply is an error, and
\* the success report is sent only for an order the exchange accepted.
C11_FailureReportsNoTrade ==
    (last.kind = "confirm" /\ last.matched /\ task = <<>>) =>
        /\ ~last.rules.ok =>
              /\ last.submitted = <<>>
              /\ last.calls = <<"get_symbol_info">>
              /\ last.reply = "error" /\ last.error = "rules_unavailable"
        /\ (/\ last.rules.ok /\ last.adjusted.exc = ""
            /\ DecCmp(last.adjusted.val, last.rules.min_qty) < 0) =>
              /\ last.submitted = <<>>
              /\ last.calls = <<"get_symbol_info">>
              /\ last.reply = "error" /\ last.error = "quantity_too_small"
        /\ last.answer \in {"BinanceAPIException", "Exception"} =>
              /\ last.reply = "error"
              /\ last.error = (IF last.answer = "BinanceAPIException"
                               THEN "binance" ELSE "exception")
        /\ last.reply = "success" =>
              /\ Len(last.submitted) = 1 /\ last.answer = "order"
              /\ last.error = ""

\* C11's case: a confirm of an order with a positive quantity was refused
\* because the adjusted quantity is below the minimum
C11_Witness ==
    /\ last.kind = "confirm" /\ last.matched /\ task = <<>>
    /\ last.quantity.c > 0
    /\ last.error = "quantity_too_small"

\* the entry of user u in the dict po, as a sequence of at most one order
Entry(po, u) == IF u \in DOMAIN po THEN <<po[u]>> ELSE <<>>

\* the buy/sell command described by upd was refused before the order is
\* stored: a usage, pair or balance refusal, or an error on the way to the
\* stored quantity
Rejected(upd) ==
    \/ upd.reply \in {"usage", "unsupported_pair", "insufficient_balance"}
    \/ upd.reply = "error" /\ Len(upd.calls) < 2

\* C12: the entry of user u in pending_orders changes only in the handling of
\* u's own buy/sell command that was not rejected, of u's own matching
\* confirm or of u's own cancel; it is the same after every update of another
\* user, after u's /balance, /info, /help and /reset, after u's rejected
\* buy/sell commands and after the dispatcher's own steps.
C12_OnlyOwnerChangesEntry ==
    [][\A u \in Users :
          /\ Entry(pending_orders', u) # Entry(pending_orders, u) =>
                \/ Handles("command") /\ last'.user = u /\ ~Rejected(last')
                \/ Handles("cancel") /\ last'.user = u
                \/ Handles("confirm") /\ last'.user = u /\ last'.matched
                \/ task # <<>> /\ task[1].user = u
          /\ (last = NoUpdate /\ last'.user # u) =>
                Entry(pending_orders', u) = Entry(pending_orders, u)
          /\ (last = NoUpdate /\ last'.kind \in {"balance", "info", "help", "reset"}) =>
                Entry(pending_orders', u) = Entry(pending_orders, u)
          /\ (Handles("command") /\ Rejected(last')) =>
                Entry(pending_orders', u) = Entry(pending_orders, u)
          /\ last' = NoUpdate =>
                Entry(pending_orders', u) = Entry(pending_orders, u)]_vars

\* C12's case: one user's cancel was handled while another user has an order
\* pending
C12_Witness ==
    /\ last.kind = "cancel"
    /\ \E v \in Users \ {last.user} : v \in DOMAIN pending_orders

\* q is A / P in exact arithmetic when that has at most Prec digits, and
\* otherwise within half a unit of q's last digit of it (P > 0)
IsQuotient(q, A, P) ==
    LET m    == IF q.e + P.e < A.e THEN q.e + P.e ELSE A.e
        qP   == q.c * P.c * Pow10(q.e + P.e - m)
        a    == A.c * Pow10(A.e - m)
        half == P.c * Pow10(q.e + P.e - m)
    IN  /\ NumDigits(Abs(q.c)) <= Prec
        /\ 2 * Abs(qP - a) <= half
        /\ (a % P.c = 0 /\ NumDigits(Abs(a \div P.c)) <= Prec) => qP = a

\* C13: a buy command of amount A that is not rejected, handled at price P,
\* stores direction buy and the quantity A / P (as a Decimal of Prec digits);
\* a sell command of amount A that is not rejected stores direction sell and
\* the quantity A.  The stored quantity changes only when its user's next
\* command stores an order, and the confirm hands execute_trade that stored
\* quantity without any price lookup.
C13_StoredQuantity ==
    [][/\ (Handles("command") /\ ~Rejected(last')) =>
            /\ last'.user \in DOMAIN pending_orders'
            /\ LET o == pending_orders'[last'.user]
                   A == ParseDecimal(last'.cmd.amount).val
               IN  /\ o.is_buy = last'.is_buy
                   /\ last'.is_buy => IsQuotient(o.quantity, A, last'.price)
                   /\ ~last'.is_buy => o.quantity = A
       /\ \A u \in Users :
            (/\ u \in DOMAIN pending_orders /\ u \in DOMAIN pending_orders'
             /\ pending_orders'[u].quantity # pending_orders[u].quantity)
            => Handles("command") /\ last'.user = u /\ ~Rejected(last')
       /\ (Handles("confirm") /\ last'.matched) =>
            /\ task'[1].order_data.quantity = pending_orders[last'.user].quantity
            /\ last'.quantity = pending_orders[last'.user].quantity
       /\ task # <<>> =>
            /\ task[1].order_data.quantity = pending_orders[task[1].user].quantity
            /\ \A i \in 1..Len(last'.calls) : last'.calls[i] # "get_symbol_ticker"]_vars

\* C13's case: a buy of 100 at the price 3 stored 33.333333, and a later
\* confirm handed that quantity to execute_trade
C13_Witness ==
    /\ last.kind = "confirm" /\ last.matched /\ task = <<>>
    /\ pending_orders[last.user].is_buy
    /\ last.quantity = Dec(33333333, -6)

\* C14: a buy/sell command that is answered with an error instead of the
\* confirmation prompt leaves pending_orders as it was; an order is stored for
\* a command only when its prompt is sent.
C14_StoredOnlyWithPrompt ==
    [][Handles("command") =>
          /\ last'.reply # "prompt" => pending_orders' = pending_orders
          /\ last'.stored => last'.reply = "prompt"]_vars

\* C15: a confirm button on a prompt that was sent before the user's newest
\* order was stored is answered "expired" and no order is submitted for it,
\* whatever the pair of the newest order.
C15_OlderPromptExpires ==
    (last.kind = "confirm" /\ last.stale) =>
        /\ ~last.matched
        /\ last.reply = "expired"
        /\ last.submitted = <<>>

\* C16: a matching confirm that has shown "processing" leads to the end of
\* its handler with a final report, the success report or an error report
\* that names its reason; the step that ends it sends one report, after at
\* most one rule fetch and one order call, and no exception has left
\* execute_trade or handle_button.
C16_ProcessingEndsWithOneReport ==
    /\ (task # <<>>) ~> (/\ task = <<>>
                         /\ last.kind = "confirm" /\ last.matched
                         /\ last.reply \in {"success", "error"})
    /\ [][task # <<>> =>
            /\ task' = <<>>
            /\ last'.reply \in {"success", "error"}
            /\ last'.raised = ""
            /\ (last'.reply = "error") =
                  (last'.error \in {"rules_unavailable", "quantity_too_small",
                                    "binance", "exception"})
            /\ (last'.reply = "success") = (last'.error = "")
            /\ Len(last'.calls) <= 2 /\ Len(last'.submitted) <= 1]_vars

====
